---- MODULE Spec2Model ----
(***************************************************************************)
(* gogpt: a command-line question/answer client.  One invocation parses    *)
(* its flags, loads ~/.gogpt/config.json, optionally reads a text file,    *)
(* opens the BoltDB file ~/.gogpt/qa.db, ensures the bucket, asks the      *)
(* completion endpoint once, stores the question/answer record and prints  *)
(* the answer (src/main.go).  Several invocations (operating-system        *)
(* processes) may run against the same store file.                         *)
(***************************************************************************)
EXTENDS Integers, Sequences, FiniteSets, TLC

\* ------------------------------------------------------------------ bounds

\* Longest message content of a completion response that is enumerated.
MaxLen == 3

\* ------------------------------------------------------------------ values

\* Operating-system processes running the program against one HOME.
Procs == {"p1", "p2"}

\* http.StatusOK
StatusOK == 200

\* Characters of a response content; Space are those strings.TrimSpace removes.
Space == {" "}
Chars == {"a"} \cup Space

RECURSIVE SeqsUpTo(_)
SeqsUpTo(n) ==
    IF n = 0 THEN {<<>>}
    ELSE LET shorter == SeqsUpTo(n - 1)
         IN  shorter \cup {Append(s, c) : s \in {t \in shorter : Len(t) = n - 1}, c \in Chars}

\* The message contents a choice of a response may carry.
Contents == SeqsUpTo(MaxLen)

\* A second choice, when the response carries one, has this content.
OtherChoice == <<"b">>

\* Command lines.  nflag is flag.NFlag(): the number of flags that were set.
NoFlags == [nflag |-> 0, showHelp |-> FALSE, question |-> "", example_prompt |-> "",
            example_response |-> "", file_to_analyze |-> "", debugMode |-> FALSE]

ArgSets ==
    { NoFlags,
      [NoFlags EXCEPT !.nflag = 2, !.showHelp = TRUE, !.question = "q1"],
      [NoFlags EXCEPT !.nflag = 1, !.debugMode = TRUE],
      [NoFlags EXCEPT !.nflag = 1, !.question = ""],
      [NoFlags EXCEPT !.nflag = 1, !.question = "q1"],
      [NoFlags EXCEPT !.nflag = 4, !.question = "q1", !.example_prompt = "ep",
                      !.example_response = "er", !.file_to_analyze = "f"],
      [NoFlags EXCEPT !.nflag = 1, !.question = "q2"] }

\* What the config file turns out to be when it is read (lines 99-107).
ConfigStates == {"ok", "unreadable", "badjson"}

\* An HTTP exchange with the completion endpoint: the transport fails (err),
\* or a status arrives with a body that cannot be read (readErr), is not JSON
\* (json = FALSE), or decodes to a response with the given choices.
NoResp == [err |-> FALSE, status |-> 0, readErr |-> FALSE, json |-> FALSE, choices |-> <<>>]

Responses ==
    { [NoResp EXCEPT !.err = TRUE],
      [NoResp EXCEPT !.status = 500],
      [NoResp EXCEPT !.status = StatusOK, !.readErr = TRUE],
      [NoResp EXCEPT !.status = StatusOK],
      [NoResp EXCEPT !.status = StatusOK, !.json = TRUE] }
    \cup { [NoResp EXCEPT !.status = StatusOK, !.json = TRUE, !.choices = <<c>>] : c \in Contents }
    \cup { [NoResp EXCEPT !.status = StatusOK, !.json = TRUE, !.choices = <<c, OtherChoice>>] :
             c \in Contents }

\* ------------------------------------------------------------------ state

VARIABLES
    inv,      \* per process: the state of its current invocation of main
    store,    \* the store file qa.db: exists, has the bucket, the bucket's key/value pairs
    flock,    \* the processes holding the exclusive file lock of qa.db
    lastOk    \* history: question -> answer of the latest invocation that exited 0

vars == <<inv, store, flock, lastOk>>

\* A process that has not been started: the fields are main's locals and
\* globals, plus what the invocation did (sent, printed, trace) and how it ended.
Fresh ==
    [pc |-> "idle", args |-> NoFlags, apiKey |-> "", text_to_analyze |-> "",
     resp |-> NoResp, answer |-> <<>>, result |-> "none",
     sent |-> <<>>, printed |-> <<>>, trace |-> <<>>, failure |-> "none",
     logged |-> FALSE, exitCode |-> -1]

Init ==
    /\ inv = [p \in Procs |-> Fresh]
    /\ store = [exists |-> FALSE, bucket |-> FALSE, records |-> {}]
    /\ flock = {}
    /\ lastOk = {}

\* ------------------------------------------------------------------ helpers

RECURSIVE TrimLeft(_)
TrimLeft(s) ==
    IF s = <<>> THEN s
    ELSE IF Head(s) \in Space THEN TrimLeft(Tail(s)) ELSE s

RECURSIVE TrimRight(_)
TrimRight(s) ==
    IF s = <<>> THEN s
    ELSE IF s[Len(s)] \in Space THEN TrimRight(SubSeq(s, 1, Len(s) - 1)) ELSE s

\* strings.TrimSpace
TrimSpace(s) == TrimRight(TrimLeft(s))

\* The chat request getAnswer builds (lines 156-165, 179).
ChatReq(apiKey, question, example_prompt, example_response, text_to_analyze) ==
    [bearer |-> apiKey,
     messages |-> << <<"system", "helpful">>,
                     <<"user", example_prompt>>,
                     <<"assistant", example_response>>,
                     <<"user", <<"Now, about this following text, ", question, ": ",
                                 text_to_analyze>> >> >>]

\* getAnswer returning the first choice's content as it came.
getAnswerNoTrim(r) ==
    IF r.err THEN [kind |-> "neterr", text |-> <<>>]
    ELSE IF r.status # StatusOK THEN [kind |-> "status", text |-> <<>>]
    ELSE IF r.readErr THEN [kind |-> "neterr", text |-> <<>>]
    ELSE IF ~r.json THEN [kind |-> "json", text |-> <<>>]
    ELSE IF Len(r.choices) = 0 THEN [kind |-> "panic", text |-> <<>>]
    ELSE [kind |-> "ok", text |-> r.choices[1]]

\* getAnswer's return for the exchange r (lines 181-202): kind "ok" with the
\* text, an error kind, or "panic" when Choices[0] indexes an empty list.
getAnswer(r) ==
    IF r.err THEN [kind |-> "neterr", text |-> <<>>]
    ELSE IF r.status # StatusOK THEN [kind |-> "status", text |-> <<>>]
    ELSE IF r.readErr THEN [kind |-> "neterr", text |-> <<>>]
    ELSE IF ~r.json THEN [kind |-> "json", text |-> <<>>]
    ELSE IF Len(r.choices) = 0 THEN [kind |-> "panic", text |-> <<>>]
    ELSE [kind |-> "ok", text |-> TrimSpace(r.choices[1])]

\* json.Marshal(&QA{Question, Answer})
QA(question, answer) == [question |-> question, answer |-> answer]

\* A put that appends: an earlier pair under the key stays.
PutAppend(records, key, data) == records \cup {<<key, data>>}

\* A put that rewrites the bucket: only the new pair is left.
PutOnly(records, key, data) == {<<key, data>>}

\* Bucket.Put: the pair under key replaces any pair already under it.
Put(records, key, data) ==
    {r \in records : r[1] # key} \cup {<<key, data>>}

\* The process ends with the given status: the operating system closes its
\* descriptors, which drops its lock on qa.db (also what a deferred db.Close does).
Exit(p, code, fields) ==
    /\ inv' = [inv EXCEPT ![p] = [fields EXCEPT !.pc = "exited", !.exitCode = code]]
    /\ flock' = flock \ {p}

\* log.Fatalf / logError.Printf followed by os.Exit(1).
Fatal(p, why, fields) ==
    Exit(p, 1, [fields EXCEPT !.failure = IF @ = "none" THEN why ELSE @, !.logged = TRUE])

Did(p, e) == \E i \in 1..Len(inv[p].trace) : inv[p].trace[i] = e

\* ------------------------------------------------------------------ actions

\* The program is started with a command line; flag.Parse and the loggers.
Invoke(p, a) ==
    /\ inv[p].pc \in {"idle", "exited"}
    /\ inv' = [inv EXCEPT ![p] = [Fresh EXCEPT !.pc = "flags", !.args = a]]
    /\ UNCHANGED <<store, flock, lastOk>>

\* Lines 85-89: with no flag set or -help, print the defaults and exit 0.
HelpCheck(p) ==
    /\ inv[p].pc = "flags"
    /\ IF inv[p].args.nflag = 0 \/ inv[p].args.showHelp
       THEN Exit(p, 0, [inv[p] EXCEPT !.printed = Append(@, [kind |-> "defaults", text |-> <<>>]),
                                      !.trace = Append(@, "help")])
       ELSE /\ inv' = [inv EXCEPT ![p].pc = "statConfig"]
            /\ UNCHANGED flock
    /\ UNCHANGED <<store, lastOk>>

\* The config check logging the missing file and going on.
StatConfigNoExit(p) ==
    /\ inv[p].pc = "statConfig"
    /\ \E o \in {"dirfail", "missing", "present"} :
         CASE o = "dirfail" -> Fatal(p, "config_dir", inv[p])
           [] o = "missing" -> /\ inv' = [inv EXCEPT ![p].pc = "readConfig",
                                                     ![p].failure = "config_missing",
                                                     ![p].logged = TRUE]
                               /\ UNCHANGED flock
           [] o = "present" -> /\ inv' = [inv EXCEPT ![p].pc = "readConfig"]
                               /\ UNCHANGED flock
    /\ UNCHANGED <<store, lastOk>>

\* Lines 91-97: the config directory is made, then config.json must exist.
StatConfig(p) ==
    /\ inv[p].pc = "statConfig"
    /\ \E o \in {"dirfail", "missing", "present"} :
         CASE o = "dirfail" -> Fatal(p, "config_dir", inv[p])
           [] o = "missing" -> Fatal(p, "config_missing", inv[p])
           [] o = "present" -> /\ inv' = [inv EXCEPT ![p].pc = "readConfig"]
                               /\ UNCHANGED flock
    /\ UNCHANGED <<store, lastOk>>

\* Lines 99-107: read and unmarshal config.json.  Both errors are logged with
\* logError.Printf and main goes on, config.APIKey left at its zero value.
LoadConfig(p) ==
    /\ inv[p].pc = "readConfig"
    /\ \E c \in ConfigStates :
         inv' = [inv EXCEPT ![p] =
                   IF c = "ok"
                   THEN [@ EXCEPT !.pc = "readFile", !.apiKey = "key",
                                  !.trace = Append(@, "config")]
                   ELSE [@ EXCEPT !.pc = "readFile", !.apiKey = "", !.logged = TRUE,
                                  !.failure = IF c = "unreadable" THEN "config_unreadable"
                                              ELSE "config_invalid"]]
    /\ UNCHANGED <<store, flock, lastOk>>

\* Lines 109-122: with -file_to_analyze the file must exist and be readable.
ReadFileToAnalyze(p) ==
    /\ inv[p].pc = "readFile"
    /\ IF inv[p].args.file_to_analyze = ""
       THEN /\ inv' = [inv EXCEPT ![p].pc = "open"]
            /\ UNCHANGED flock
       ELSE \E o \in {"missing", "unreadable", "ok"} :
              CASE o = "missing" -> Fatal(p, "file_missing", inv[p])
                [] o = "unreadable" -> Fatal(p, "file_unreadable", inv[p])
                [] o = "ok" -> /\ inv' = [inv EXCEPT ![p].pc = "open",
                                                     ![p].text_to_analyze = "text"]
                               /\ UNCHANGED flock
    /\ UNCHANGED <<store, lastOk>>

\* An open that does not wait for the file lock.
OpenStoreNoLock(p) ==
    /\ inv[p].pc = "open"
    /\ \/ /\ \E why \in {"config_dir", "store_open"} : Fatal(p, why, inv[p])
          /\ UNCHANGED store
       \/ /\ flock' = flock \cup {p}
          /\ store' = [store EXCEPT !.exists = TRUE]
          /\ inv' = [inv EXCEPT ![p].pc = "bucket",
                                ![p].trace = IF store.exists THEN Append(@, "open")
                                             ELSE Append(Append(@, "open"), "mkfile")]
    /\ UNCHANGED lastOk

\* Lines 124-132: bolt.Open(dbFile, 0600, nil) creates qa.db when absent and
\* takes the exclusive file lock; with nil options it waits for the lock
\* without a timeout, so the step is taken only once no process holds it.
OpenStore(p) ==
    /\ inv[p].pc = "open"
    /\ \/ /\ \E why \in {"config_dir", "store_open"} : Fatal(p, why, inv[p])
          /\ UNCHANGED store
       \/ /\ flock = {}
          /\ flock' = flock \cup {p}
          /\ store' = [store EXCEPT !.exists = TRUE]
          /\ inv' = [inv EXCEPT ![p].pc = "bucket",
                                ![p].trace = IF store.exists THEN Append(@, "open")
                                             ELSE Append(Append(@, "open"), "mkfile")]
    /\ UNCHANGED lastOk

\* Lines 134-140: db.Update with CreateBucketIfNotExists.
EnsureBucket(p) ==
    /\ inv[p].pc = "bucket"
    /\ \/ /\ Fatal(p, "bucket", inv[p])
          /\ UNCHANGED store
       \/ /\ store' = [store EXCEPT !.bucket = TRUE]
          /\ inv' = [inv EXCEPT ![p].pc = "ask",
                                ![p].trace = IF store.bucket THEN @ ELSE Append(@, "mkbucket")]
          /\ UNCHANGED flock
    /\ UNCHANGED lastOk

\* main going on to storeQA whatever error getAnswer returned.
AfterAnswerIgnoreErr(p, called, a) ==
    IF a.kind = "panic"
    THEN Exit(p, 2, [called EXCEPT !.failure = IF @ = "none" THEN "malformed_response" ELSE @])
    ELSE /\ inv' = [inv EXCEPT ![p] = [called EXCEPT !.pc = "store", !.answer = a.text]]
         /\ UNCHANGED flock

\* What main does with getAnswer's return (lines 142-145): an error is fatal;
\* a panic inside getAnswer unwinds main, runs the deferred db.Close and ends
\* the process with status 2 and the runtime's panic message.
AfterAnswer(p, called, a) ==
    CASE a.kind = "ok" ->
           /\ inv' = [inv EXCEPT ![p] = [called EXCEPT !.pc = "store", !.answer = a.text]]
           /\ UNCHANGED flock
      [] a.kind = "panic" ->
           Exit(p, 2, [called EXCEPT !.failure = IF @ = "none" THEN "malformed_response" ELSE @])
      [] OTHER ->
           Fatal(p, CASE a.kind = "neterr" -> "network"
                      [] a.kind = "status" -> "non200"
                      [] OTHER -> "malformed_response", called)

\* Line 142 with getAnswer (lines 155-203): one request is built and sent with
\* client.Do, and the exchange r comes back.
AskCompletion(p, r) ==
    /\ inv[p].pc = "ask"
    /\   LET a == getAnswer(r)
             called == [inv[p] EXCEPT
                          !.sent = Append(@, ChatReq(inv[p].apiKey, inv[p].args.question,
                                                     inv[p].args.example_prompt,
                                                     inv[p].args.example_response,
                                                     inv[p].text_to_analyze)),
                          !.trace = Append(@, "request"),
                          !.resp = r,
                          !.result = a.kind]
         IN  AfterAnswer(p, called, a)
    /\ UNCHANGED <<store, lastOk>>

\* storeQA (lines 205-216): one db.Update that puts the marshalled record under
\* the question.  Bucket.Put refuses an empty key; a commit may fail.
storeQA(p, question, answer) ==
    /\ question # ""
    /\ store' = [store EXCEPT !.records = Put(@, question, QA(question, answer))]

\* Lines 147-150.
StoreAnswer(p) ==
    /\ inv[p].pc = "store"
    /\ \/ /\ storeQA(p, inv[p].args.question, inv[p].answer)
          /\ inv' = [inv EXCEPT ![p].pc = "print", ![p].trace = Append(@, "put")]
          /\ UNCHANGED flock
       \/ /\ Fatal(p, "store_write", inv[p])
          /\ UNCHANGED store
    /\ UNCHANGED lastOk

\* Lines 152-153: print the answer and return from main; the deferred
\* db.Close runs and the process ends with status 0.
PrintAnswer(p) ==
    /\ inv[p].pc = "print"
    /\ Exit(p, 0, [inv[p] EXCEPT !.printed = Append(@, [kind |-> "answer", text |-> inv[p].answer]),
                                 !.trace = Append(@, "print")])
    /\ lastOk' = {r \in lastOk : r[1] # inv[p].args.question}
                   \cup {<<inv[p].args.question, inv[p].answer>>}
    /\ UNCHANGED store

\* One step of process p, its command line drawn from A and the endpoint's
\* exchange from R.
Step(p, A, R) ==
    \/ \E a \in A : Invoke(p, a)
    \/ HelpCheck(p)
    \/ StatConfig(p)
    \/ LoadConfig(p)
    \/ ReadFileToAnalyze(p)
    \/ OpenStore(p)
    \/ EnsureBucket(p)
    \/ \E r \in R : AskCompletion(p, r)
    \/ StoreAnswer(p)
    \/ PrintAnswer(p)

\* The program run again and again by one process.
Main == "p1"

Next == Step(Main, ArgSets, Responses)

Spec == Init /\ [][Next]_vars

\* Two processes at once against the same store file, on fewer inputs.
ConcArgs == {a \in ArgSets : a.nflag = 1 /\ a.question # ""}

ConcResponses ==
    {r \in Responses : Len(r.choices) <= 1 /\ ~r.readErr /\ (r.status = StatusOK => r.json)
                       /\ \A i \in 1..Len(r.choices) : Len(r.choices[i]) = 1}

ConcNext == \E p \in Procs : Step(p, ConcArgs, ConcResponses)

ConcSpec == Init /\ [][ConcNext]_vars

\* ------------------------------------------------------------------ claims

\* The exchange of p's completion call ended with a status other than 200.
Non200(p) == Did(p, "request") /\ ~inv[p].resp.err /\ inv[p].resp.status # StatusOK

\* p's completion call got a 200 response that decodes and has a first choice.
Answered(p) ==
    /\ Did(p, "request")
    /\ ~inv[p].resp.err /\ inv[p].resp.status = StatusOK
    /\ ~inv[p].resp.readErr /\ inv[p].resp.json
    /\ Len(inv[p].resp.choices) >= 1

\* a is c without its leading and trailing whitespace, said without TrimSpace:
\* c is i spaces, then a, then j spaces, and a neither starts nor ends with one.
IsTrimOf(a, c) ==
    /\ a = <<>> \/ (a[1] \notin Space /\ a[Len(a)] \notin Space)
    /\ \E i \in 0..Len(c) :
         /\ i + Len(a) <= Len(c)
         /\ \A k \in 1..i : c[k] \in Space
         /\ \A k \in 1..Len(a) : c[i + k] = a[k]
         /\ \A k \in (i + Len(a) + 1)..Len(c) : c[k] \in Space

\* The records of the bucket stored under key k.
Under(k) == {r \in store.records : r[1] = k}

\* p has the store open: between bolt.Open's return and the end of the process.
HoldsOpen(p) == inv[p].pc \in {"bucket", "ask", "store", "print"}

\* C1 as stated: after a non-200 response the invocation has exited non-zero
\* and has written nothing at all to the store file: no record, and neither
\* the file nor the bucket was created by it.
C1_NoStoreFileWrite ==
    \A p \in Procs :
       Non200(p) =>
          /\ inv[p].pc = "exited" /\ inv[p].exitCode # 0
          /\ ~Did(p, "put") /\ ~Did(p, "mkfile") /\ ~Did(p, "mkbucket")

\* C1 amended: after a non-200 response the invocation has exited non-zero,
\* storeQA was not called (no record written) and nothing was printed; the
\* only store-file writes it made are those of opening the store.
C1_NoRecordWrite ==
    \A p \in Procs :
       Non200(p) =>
          /\ inv[p].pc = "exited" /\ inv[p].exitCode # 0
          /\ ~Did(p, "put") /\ ~Did(p, "print") /\ inv[p].printed = <<>>

C1_Witness ==
    \E p \in Procs :
       /\ Non200(p) /\ inv[p].exitCode = 1
       /\ store.records # {} /\ ~Did(p, "mkfile") /\ ~Did(p, "mkbucket")

\* C2: every failure is fatal: once an invocation has met a failure of any
\* kind it has logged a message and exited non-zero (so no later stage runs).
C2_AllFailuresFatal ==
    \A p \in Procs :
       inv[p].failure # "none" =>
          inv[p].pc = "exited" /\ inv[p].exitCode # 0 /\ inv[p].logged

\* C3: an invocation that finds config.json missing has exited non-zero
\* without opening the store and without sending a request.
C3_MissingConfigNoCall ==
    \A p \in Procs :
       inv[p].failure = "config_missing" =>
          /\ inv[p].pc = "exited" /\ inv[p].exitCode # 0
          /\ ~Did(p, "open") /\ p \notin flock
          /\ inv[p].sent = <<>> /\ ~Did(p, "put")

C3_Witness ==
    \E p \in Procs :
       /\ inv[p].failure = "config_missing" /\ inv[p].pc = "exited"
       /\ ~inv[p].args.showHelp /\ inv[p].args.nflag > 0

\* C4: when an invocation with question q got a 200 response whose first
\* choice has content c and has completed (exit 0), the store holds under q
\* exactly the record {q, c trimmed}, and the trimmed text is what was printed.
C4_StoredAnswerTrimmed ==
    \A p \in Procs :
       (inv[p].pc = "exited" /\ inv[p].exitCode = 0 /\ Did(p, "request")) =>
          /\ Answered(p)
          /\ \E a \in {r[2].answer : r \in Under(inv[p].args.question)} :
               /\ IsTrimOf(a, inv[p].resp.choices[1])
               /\ Under(inv[p].args.question) = {<<inv[p].args.question,
                                                   QA(inv[p].args.question, a)>>}
               /\ inv[p].printed = <<[kind |-> "answer", text |-> a]>>

C4_Witness ==
    \E p \in Procs :
       /\ inv[p].pc = "exited" /\ inv[p].exitCode = 0
       /\ Answered(p)
       /\ inv[p].resp.choices[1] = <<" ", "a", " ">>
       /\ Under(inv[p].args.question) = {<<inv[p].args.question,
                                           QA(inv[p].args.question, <<"a">>)>>}

\* C5: the store holds one record per question, and it is the answer of the
\* latest invocation that wrote that question successfully (lastOk, or the
\* answer just put by an invocation that is about to print it).
C5_OverwriteNotDuplicate ==
    /\ \A r1, r2 \in store.records : r1[1] = r2[1] => r1 = r2
    /\ \A l \in lastOk : Under(l[1]) # {}
    /\ \A r \in store.records :
         IF \E p \in Procs : inv[p].pc = "print" /\ inv[p].args.question = r[1]
         THEN \E p \in Procs : /\ inv[p].pc = "print"
                               /\ r = <<inv[p].args.question,
                                        QA(inv[p].args.question, inv[p].answer)>>
         ELSE \E l \in lastOk : r = <<l[1], QA(l[1], l[2])>>

C5_Witness ==
    \E p \in Procs :
       /\ inv[p].pc = "print"
       /\ \E l \in lastOk : l[1] = inv[p].args.question /\ l[2] # inv[p].answer
       /\ Under(inv[p].args.question) = {<<inv[p].args.question,
                                           QA(inv[p].args.question, inv[p].answer)>>}

\* C6: no two processes hold the store open at once; whoever holds it open
\* holds the lock, and a process that has not got past bolt.Open has sent
\* no request and written no record.
C6_OneHolder ==
    /\ \A p, q \in Procs : (HoldsOpen(p) /\ HoldsOpen(q)) => p = q
    /\ \A p \in Procs : HoldsOpen(p) <=> p \in flock
    /\ \A p \in Procs :
         (inv[p].pc \notin {"exited"} /\ ~HoldsOpen(p)) =>
            inv[p].sent = <<>> /\ ~Did(p, "put")

C6_Witness ==
    \E p, q \in Procs :
       /\ p # q
       /\ inv[p].pc = "store" /\ Did(p, "request")
       /\ inv[q].pc = "open" /\ inv[q].sent = <<>>

\* C7: an invocation without a non-empty -question loads no configuration,
\* sends no request and writes no record; with no flag or -help it prints
\* the defaults and exits 0.
C7_QuestionRequired ==
    \A p \in Procs :
       /\ (inv[p].pc # "idle" /\ inv[p].args.question = "") =>
             ~Did(p, "config") /\ inv[p].sent = <<>> /\ ~Did(p, "put")
       /\ (inv[p].pc = "exited" /\ (inv[p].args.nflag = 0 \/ inv[p].args.showHelp)) =>
             inv[p].exitCode = 0 /\ inv[p].printed = <<[kind |-> "defaults", text |-> <<>>]>>

\* C8: a call of getAnswer sends one request and ends in one of four ways:
\* the trimmed first choice, a network error, a status error or a decoding
\* error; a 200 response with no choice ends in one of the errors.
C8_FourOutcomes ==
    \A p \in Procs :
       Did(p, "request") =>
          /\ Len(inv[p].sent) = 1
          /\ inv[p].result \in {"ok", "neterr", "status", "json"}
          /\ inv[p].result = "ok" =>
                Answered(p) /\ IsTrimOf(inv[p].answer, inv[p].resp.choices[1])
          /\ (inv[p].resp.status = StatusOK /\ inv[p].resp.json /\ inv[p].resp.choices = <<>>) =>
                inv[p].result \in {"neterr", "status", "json"}

\* C9: the stages run in order, each only after the one before succeeded:
\* request after the configuration was loaded, put after an answer came
\* back, print after the put; a finished invocation printed an answer exactly
\* when it put a record, and then it exited 0.
C9_StagesGated ==
    \A p \in Procs :
       /\ Did(p, "request") => Did(p, "config")
       /\ Did(p, "put") => Did(p, "request") /\ inv[p].result = "ok"
       /\ Did(p, "print") => Did(p, "put")
       /\ inv[p].pc = "exited" =>
             /\ Did(p, "put") <=> inv[p].printed = <<[kind |-> "answer", text |-> inv[p].answer]>>
             /\ Did(p, "put") => inv[p].exitCode = 0

\* C10: a step of an invocation with question q leaves the records of every
\* other key as they were, deletes no key, and whatever record it adds is
\* under q, whatever the other flags are.
C10_Frame ==
    [][\A p \in Procs :
          inv'[p] # inv[p] =>
             /\ \A r \in store.records :
                  /\ Under(r[1])' # {}
                  /\ r[1] # inv[p].args.question => r \in store'.records
             /\ \A r \in store'.records \ store.records : r[1] = inv[p].args.question]_vars

C10_Witness ==
    \E p \in Procs :
       /\ inv[p].pc = "print"
       /\ inv[p].args.example_prompt # "" /\ inv[p].args.file_to_analyze # ""
       /\ \E l \in lastOk : l[1] = inv[p].args.question /\ l[2] # inv[p].answer
       /\ Cardinality(Under(inv[p].args.question)) = 1
       /\ \E r \in store.records : r[1] # inv[p].args.question

====
